---- MODULE Spec2Model ----
(***************************************************************************)
(* Model of the MediaInfoApi service (src/main.py): three request handlers *)
(* probe_audio, extract_audio and transcribe_audio, run by server          *)
(* processes that share the scratch directory /tmp.  A handler is modelled *)
(* as a sequence of steps, one per external call, with the try / except /  *)
(* finally structure of the source.                                        *)
(*                                                                         *)
(* Strings are TLA+ strings and are taken apart character by character,    *)
(* as urlparse, os.path.basename, str.endswith, str.split and re.match do. *)
(* An optional value (Python None or a value) is a tuple: <<>> or <<v>>.   *)
(***************************************************************************)
EXTENDS Integers, Sequences, FiniteSets, TLC

\* ------------------------------------------------------------------------
\* String helpers (Python str operations used by the handlers)
\* ------------------------------------------------------------------------

None == <<>>
Some(v) == <<v>>

\* s[i-1:i], the i-th character (1-based), "" outside the string
Ch(s, i) == IF i >= 1 /\ i <= Len(s) THEN SubSeq(s, i, i) ELSE ""

\* s[i-1:], the suffix starting at position i (1-based)
From(s, i) == IF i > Len(s) THEN "" ELSE SubSeq(s, i, Len(s))

\* s[:n], the first n characters
Upto(s, n) == IF n <= 0 THEN "" ELSE IF n >= Len(s) THEN s ELSE SubSeq(s, 1, n)

\* str.endswith
EndsWith(s, suf) ==
    /\ Len(suf) <= Len(s)
    /\ From(s, Len(s) - Len(suf) + 1) = suf

\* str.startswith
StartsWith(s, pre) == Len(pre) <= Len(s) /\ Upto(s, Len(pre)) = pre

\* the least and the greatest element of a set of positions, d when empty
MinOr(S, d) == IF S = {} THEN d ELSE CHOOSE i \in S : \A j \in S : i <= j
MaxOr(S, d) == IF S = {} THEN d ELSE CHOOSE i \in S : \A j \in S : i >= j

\* str.find(c, start) for a one-character c, 1-based; 0 when absent
FindFrom(s, c, start) == MinOr({i \in start..Len(s) : Ch(s, i) = c}, 0)

Find(s, c) == FindFrom(s, c, 1)

\* str.rfind(c), 1-based; 0 when absent
RFind(s, c) == MaxOr({i \in 1..Len(s) : Ch(s, i) = c}, 0)

\* the substring sub occurs in s
Contains(s, sub) ==
    \E i \in 1..(Len(s) - Len(sub) + 1) : SubSeq(s, i, i + Len(sub) - 1) = sub

\* str.split(c): the list of fields separated by the character c
RECURSIVE SplitAt(_, _, _)
SplitAt(s, c, i) ==
    IF i = 0 THEN <<s>>
    ELSE <<Upto(s, i - 1)>> \o SplitAt(From(s, i + 1), c, Find(From(s, i + 1), c))

Split(s, c) == SplitAt(s, c, Find(s, c))

\* os.path.basename on POSIX: everything after the last '/'
Basename(p) == From(p, RFind(p, "/") + 1)

Digits == {"0", "1", "2", "3", "4", "5", "6", "7", "8", "9"}
LowerLetters == {"a", "b", "c", "d", "e", "f", "g", "h", "i", "j", "k", "l", "m",
                 "n", "o", "p", "q", "r", "s", "t", "u", "v", "w", "x", "y", "z"}
UpperLetters == {"A", "B", "C", "D", "E", "F", "G", "H", "I", "J", "K", "L", "M",
                 "N", "O", "P", "Q", "R", "S", "T", "U", "V", "W", "X", "Y", "Z"}

\* [0-9a-f] under re.I
IsHex(c) == c \in Digits \cup {"a", "b", "c", "d", "e", "f"}
                         \cup {"A", "B", "C", "D", "E", "F"}

\* str.lower on one character
LowerCh(c) ==
    IF c \in UpperLetters
    THEN CHOOSE l \in LowerLetters :
            \E k \in 1..26 : /\ Ch("ABCDEFGHIJKLMNOPQRSTUVWXYZ", k) = c
                             /\ Ch("abcdefghijklmnopqrstuvwxyz", k) = l
    ELSE c

RECURSIVE Lower(_)
Lower(s) == IF s = "" THEN "" ELSE LowerCh(Ch(s, 1)) \o Lower(From(s, 2))

\* ------------------------------------------------------------------------
\* The GUID pattern of the two regular expressions
\* ------------------------------------------------------------------------

GuidLen == 36
HyphenAt == {9, 14, 19, 24}

\* [0-9a-f]{8}-[0-9a-f]{4}-[0-9a-f]{4}-[0-9a-f]{4}-[0-9a-f]{12}, re.I
IsGuid(g) ==
    /\ Len(g) = GuidLen
    /\ \A i \in 1..GuidLen :
          IF i \in HyphenAt THEN Ch(g, i) = "-" ELSE IsHex(Ch(g, i))

\* re.match(r'^(GUID)\.<ext>$', file_name, re.I): group(1) or None.
\* '$' matches at the end of the string and also just before a newline
\* that ends the string; re.I makes the extension case-insensitive.
FullMatchGuidExt(b, ext) ==
    /\ Len(b) = GuidLen + Len(ext)
    /\ IsGuid(Upto(b, GuidLen))
    /\ Lower(From(b, GuidLen + 1)) = ext

MatchGuidExt(file_name, ext) ==
    IF \/ FullMatchGuidExt(file_name, ext)
       \/ /\ EndsWith(file_name, "\n")
          /\ FullMatchGuidExt(Upto(file_name, Len(file_name) - 1), ext)
    THEN Some(Upto(file_name, GuidLen))
    ELSE None

\* ------------------------------------------------------------------------
\* urllib.parse.urlparse, as far as extract_audio uses its result
\* (scheme, netloc, path)
\* ------------------------------------------------------------------------

SchemeChars == LowerLetters \cup UpperLetters \cup Digits \cup {"+", "-", "."}

\* the scheme prefix urlsplit recognises, given the index i of the first
\* ':': that index, or 0 when what precedes it is no scheme
SchemeEndAt(url, i) ==
    IF /\ i > 1
       /\ Ch(url, 1) \in LowerLetters \cup UpperLetters
       /\ \A k \in 1..(i - 1) : Ch(url, k) \in SchemeChars
    THEN i ELSE 0

SchemeEnd(url) == SchemeEndAt(url, Find(url, ":"))

\* the first position >= start holding one of the characters of cs, or
\* Len(s) + 1 when there is none (_splitnetloc's delimiter search)
FirstOf(s, cs, start) == MinOr({i \in start..Len(s) : Ch(s, i) \in cs}, Len(s) + 1)

\* schemes for which urlparse splits ';params' off the last path segment
UsesParams == {"", "ftp", "hdl", "prospero", "http", "imap", "https", "shttp",
               "rtsp", "rtspu", "sip", "sips", "mms", "sftp", "tel"}

\* s up to (not including) position i, all of s when i = 0
CutAt(s, i) == IF i = 0 THEN s ELSE Upto(s, i - 1)

\* _splitparams: cut at the first ';' of the last path segment
SplitParams(url) ==
    CutAt(url, IF Find(url, "/") > 0 THEN FindFrom(url, ";", RFind(url, "/"))
               ELSE Find(url, ";"))

\* what is left of the URL after the netloc: the fragment and the query
\* are cut off, then the params (for the schemes that have them)
UrlPath(scheme, rest) ==
    IF scheme \in UsesParams
    THEN SplitParams(CutAt(CutAt(rest, Find(rest, "#")), Find(rest, "?")))
    ELSE CutAt(CutAt(rest, Find(rest, "#")), Find(rest, "?"))

\* the ValueError 'Invalid IPv6 URL': unbalanced brackets in the netloc
BadNetloc(netloc) == (Find(netloc, "[") > 0) # (Find(netloc, "]") > 0)

UrlParsed(scheme, netloc, rest) ==
    [ok |-> ~BadNetloc(netloc), scheme |-> scheme, netloc |-> netloc,
     path |-> UrlPath(scheme, rest)]

\* the URL behind its scheme: a netloc follows a leading '//' and ends at
\* the position delim of the first '/', '?' or '#'
UrlAfterScheme(scheme, rest, delim) ==
    IF Upto(rest, 2) = "//"
    THEN UrlParsed(scheme, SubSeq(rest, 3, delim - 1), From(rest, delim))
    ELSE UrlParsed(scheme, "", rest)

UrlSplitAt(url, se) ==
    IF se > 0
    THEN UrlAfterScheme(Lower(Upto(url, se - 1)), From(url, se + 1),
                        FirstOf(From(url, se + 1), {"/", "?", "#"}, 3))
    ELSE UrlAfterScheme("", url, FirstOf(url, {"/", "?", "#"}, 3))

\* urlparse(url): [ok, scheme, netloc, path]; ok = FALSE is the ValueError
UrlParse(url) == UrlSplitAt(url, SchemeEnd(url))

\* ------------------------------------------------------------------------
\* Requests, responses and faults
\* ------------------------------------------------------------------------

\* class ExtractAudioRequest
ExtractAudioRequest(url) == [kind |-> "extract", url |-> url]

\* class ExtractAudioResponse; the optional fields default to None
ExtractAudioResponse(success, output_key, error) ==
    [success |-> success, output_key |-> output_key,
     transcription_job_name |-> None, error |-> error]

\* a raised exception: its class and str(e) (e.stderr for CalledProcessError)
Exc(type, msg) == [type |-> type, msg |-> msg]

\* the botocore exception classes the handlers name in their except clauses
AwsErrors == {"ClientError", "NoCredentialsError", "EndpointConnectionError"}

\* ------------------------------------------------------------------------
\* extract_audio: the pure parts
\* ------------------------------------------------------------------------

\* variant: only the extension is checked, the GUID pattern is not
ValidateMp4NameSuffixOnly(file_name) ==
    IF ~EndsWith(file_name, ".mp4")
    THEN [ok |-> FALSE, asset_id |-> None,
          exc |-> Exc("ValueError",
                      "Input file must be an .mp4 file, got: " \o file_name)]
    ELSE [ok |-> TRUE, asset_id |-> Some(Upto(file_name, Len(file_name) - 4)),
          exc |-> Exc("", "")]

\* lines 104-109: the file name checks; the asset id or the ValueError
ValidateMp4Name(file_name) ==
    IF ~EndsWith(file_name, ".mp4")
    THEN [ok |-> FALSE, asset_id |-> None,
          exc |-> Exc("ValueError",
                      "Input file must be an .mp4 file, got: " \o file_name)]
    ELSE IF MatchGuidExt(file_name, ".mp4") = None
    THEN [ok |-> FALSE, asset_id |-> None,
          exc |-> Exc("ValueError",
                      "File name must be a GUID followed by .mp4, got: " \o file_name)]
    ELSE [ok |-> TRUE, asset_id |-> MatchGuidExt(file_name, ".mp4"),
          exc |-> Exc("", "")]

\* line 110
TempAudioFile(asset_id) == "/tmp/" \o asset_id \o ".mp3"

\* lines 125-131: the bucket name taken from the parsed URL, or the fault
ResolveBucket(parsed_url) ==
    IF EndsWith(parsed_url.netloc, ".s3.amazonaws.com")
    THEN [ok |-> TRUE, bucket_name |-> Some(Split(parsed_url.netloc, ".")[1]),
          exc |-> Exc("", "")]
    ELSE IF parsed_url.scheme = "s3"
    THEN IF Find(parsed_url.path, "/") > 0
         THEN [ok |-> TRUE, bucket_name |-> Some(Split(parsed_url.path, "/")[2]),
               exc |-> Exc("", "")]
         ELSE [ok |-> FALSE, bucket_name |-> None,
               exc |-> Exc("IndexError", "list index out of range")]
    ELSE [ok |-> FALSE, bucket_name |-> None,
          exc |-> Exc("ValueError", "Could not determine bucket name from URL")]

\* variant: the key is built from the lower-cased asset id
AudioKeyLower(asset_id) == "VOD/FinishedVideos/" \o Lower(asset_id) \o ".mp3"

\* line 141
AudioKey(asset_id) == "VOD/FinishedVideos/" \o asset_id \o ".mp3"

\* line 147
UploadContentType == "audio/mpeg"

\* variant: no clause of its own for the tool's non-zero exit
ExtractExceptNoToolClause(e) ==
    IF e.type \in AwsErrors
    THEN ExtractAudioResponse(FALSE, None, Some("AWS S3 error: " \o e.msg))
    ELSE IF e.type = "ValueError"
    THEN ExtractAudioResponse(FALSE, None, Some("Validation error: " \o e.msg))
    ELSE ExtractAudioResponse(FALSE, None, Some("Unexpected error: " \o e.msg))

\* lines 152-166: the except clauses, tried in order
ExtractExcept(e) ==
    IF e.type = "CalledProcessError"
    THEN ExtractAudioResponse(FALSE, None, Some("Audio extraction failed: " \o e.msg))
    ELSE IF e.type \in AwsErrors
    THEN ExtractAudioResponse(FALSE, None, Some("AWS S3 error: " \o e.msg))
    ELSE IF e.type = "ValueError"
    THEN ExtractAudioResponse(FALSE, None, Some("Validation error: " \o e.msg))
    ELSE ExtractAudioResponse(FALSE, None, Some("Unexpected error: " \o e.msg))

\* line 169: os.path.exists(temp_audio_file); os.stat(None) raises TypeError,
\* which os.path.exists does not catch
PathExists(files, temp_audio_file) ==
    IF temp_audio_file = None
    THEN [raised |-> Some(Exc("TypeError",
             "stat: path should be string, bytes, os.PathLike or integer, not NoneType")),
          exists |-> FALSE]
    ELSE [raised |-> None, exists |-> temp_audio_file[1] \in files]

\* ------------------------------------------------------------------------
\* External collaborators: every outcome a call can have
\* ------------------------------------------------------------------------

\* diagnostic text a tool leaves on stderr when it exits non-zero
Stderrs == {"", "Invalid data found when processing input"}

\* subprocess.run(["ffmpeg", ..., "-y", out], check=True): exit 0 leaves the
\* output file; a non-zero exit raises CalledProcessError and may leave a
\* partial file; the tool may also fail to start
FfmpegRun(files, out) ==
    {[raised |-> None, files |-> files \cup {out}]}
    \cup {[raised |-> Some(Exc("CalledProcessError", se)), files |-> f] :
             se \in Stderrs, f \in {files, files \cup {out}}}
    \cup {[raised |-> Some(Exc("FileNotFoundError",
                               "[Errno 2] No such file or directory: 'ffmpeg'")),
           files |-> files]}

\* s3_client.head_bucket: success, or one of the faults botocore raises
HeadBucketCall ==
    {None,
     Some(Exc("ClientError",
          "An error occurred (404) when calling the HeadBucket operation: Not Found")),
     Some(Exc("ClientError",
          "An error occurred (403) when calling the HeadBucket operation: Forbidden")),
     Some(Exc("NoCredentialsError", "Unable to locate credentials")),
     Some(Exc("EndpointConnectionError", "Could not connect to the endpoint URL")),
     Some(Exc("ParamValidationError", "Parameter validation failed"))}

\* s3_client.upload_file: success needs the local file; boto3 reports a
\* failed transfer as S3UploadFailedError, and botocore faults pass through
UploadFileCall(files, path) ==
    (IF path \in files THEN {None}
     ELSE {Some(Exc("FileNotFoundError", "[Errno 2] No such file or directory"))})
    \cup {Some(Exc("S3UploadFailedError", "Failed to upload to bucket")),
          Some(Exc("ClientError",
               "An error occurred (AccessDenied) when calling the PutObject operation")),
          Some(Exc("EndpointConnectionError", "Could not connect to the endpoint URL"))}

\* os.remove(path): removes an existing file, or raises OSError
OsRemove(files, path) ==
    (IF path \in files THEN {[ok |-> TRUE, files |-> files \ {path}]} ELSE {})
    \cup {[ok |-> FALSE, files |-> files]}

\* one entry of a request's record of collaborator calls: the operation,
\* its arguments and the exception it raised (None when it succeeded)
Call(op, args, exc) == [op |-> op, args |-> args, raised |-> exc]

\* ------------------------------------------------------------------------
\* Inputs
\* ------------------------------------------------------------------------

\* deepest directory nesting of the object keys in the request URLs
MaxDepth == 2

G1 == "3fa85f64-5717-4562-b3fc-2c963f66afa6"
G2 == "0A1b2C3d-4E5f-6a7B-8c9D-0e1F2a3B4c5D"

DirSeg(i) == IF i % 2 = 1 THEN "/videos" ELSE "/raw"

RECURSIVE Dir(_)
Dir(d) == IF d = 0 THEN "" ELSE Dir(d - 1) \o DirSeg(d)

\* file names: two GUIDs (one of mixed case), and names that are no GUID
\* (free text, a non-hex digit, a missing digit) or carry another extension
BaseNames(ext, otherExt) ==
    {G1 \o ext, G2 \o ext,
     "not-a-guid" \o ext,
     "g" \o From(G1, 2) \o ext,
     From(G1, 2) \o ext,
     G1 \o otherExt,
     G1}

UrlPrefixes ==
    {"https://bkt.s3.amazonaws.com",
     "https://my.bkt.s3.amazonaws.com",
     "s3://bkt",
     "https://s3.amazonaws.com/bkt",
     "https://cdn.example.com"}

UrlSuffixes == {"", "?versionId=3"}

Urls ==
    {p \o Dir(d) \o "/" \o n \o q :
        p \in UrlPrefixes, d \in 0..MaxDepth, n \in BaseNames(".mp4", ".MP4"),
        q \in UrlSuffixes}
    \cup {"s3:" \o G1 \o ".mp4", "https://[bkt.s3.amazonaws.com/" \o G1 \o ".mp4"}

\* ------------------------------------------------------------------------
\* State
\* ------------------------------------------------------------------------

Workers == {1, 2}

VARIABLES
    active,   \* the server processes that are running
    pc,       \* pc[w]: where process w's current handler stands
    req,      \* req[w]: the request process w is handling
    loc,      \* loc[w]: the handler's local variables
    calls,    \* calls[w]: the collaborator calls made for the current request
    resp,     \* resp[w]: the response object the handler returned, or None
    raised,   \* raised[w]: the exception that escaped the handler, or None
    fs        \* the files that exist under /tmp

vars == <<active, pc, req, loc, calls, resp, raised, fs>>

NoRequest == [kind |-> "none"]

\* the locals of the handlers before their first assignment
NoLocals ==
    [parsed_url |-> UrlParse(""), file_name |-> "", asset_id |-> None,
     temp_audio_file |-> None, bucket_name |-> None, audio_key |-> None,
     transcription_job_name |-> None, output |-> None,
     ret |-> None, remove_failed |-> FALSE]

InitWith(procs) ==
    /\ active = procs
    /\ pc = [w \in Workers |-> "idle"]
    /\ req = [w \in Workers |-> NoRequest]
    /\ loc = [w \in Workers |-> NoLocals]
    /\ calls = [w \in Workers |-> <<>>]
    /\ resp = [w \in Workers |-> None]
    /\ raised = [w \in Workers |-> None]
    /\ fs = {}

\* one server process
Init == InitWith({1})

\* variant: the framework hands over a request while the process's handler
\* is still running
DispatchAnytime(w, r, first) ==
    /\ w \in active
    /\ pc' = [pc EXCEPT ![w] = first]
    /\ req' = [req EXCEPT ![w] = r]
    /\ loc' = [loc EXCEPT ![w] = NoLocals]
    /\ calls' = [calls EXCEPT ![w] = <<>>]
    /\ resp' = [resp EXCEPT ![w] = None]
    /\ raised' = [raised EXCEPT ![w] = None]
    /\ UNCHANGED <<active, fs>>

\* the framework hands a request to a handler of process w, which is not
\* running one (its previous handler, if any, has returned or raised)
Dispatch(w, r, first) ==
    /\ w \in active
    /\ pc[w] \in {"idle", "done"}
    /\ pc' = [pc EXCEPT ![w] = first]
    /\ req' = [req EXCEPT ![w] = r]
    /\ loc' = [loc EXCEPT ![w] = NoLocals]
    /\ calls' = [calls EXCEPT ![w] = <<>>]
    /\ resp' = [resp EXCEPT ![w] = None]
    /\ raised' = [raised EXCEPT ![w] = None]
    /\ UNCHANGED <<active, fs>>

\* the handler moves on with new locals
Goto(w, next, locals) ==
    /\ pc' = [pc EXCEPT ![w] = next]
    /\ loc' = [loc EXCEPT ![w] = locals]

\* the handler returns the response r
Return(w, r) ==
    /\ pc' = [pc EXCEPT ![w] = "done"]
    /\ resp' = [resp EXCEPT ![w] = Some(r)]
    /\ raised' = raised

\* the exception e leaves the handler
Escape(w, e) ==
    /\ pc' = [pc EXCEPT ![w] = "done"]
    /\ raised' = [raised EXCEPT ![w] = Some(e)]
    /\ resp' = resp

Log(w, c) == calls' = [calls EXCEPT ![w] = Append(calls[w], c)]

\* ------------------------------------------------------------------------
\* extract_audio
\* ------------------------------------------------------------------------

\* POST /extract-audio
post_extract_audio(w) ==
    \E url \in Urls : Dispatch(w, ExtractAudioRequest(url), "ea_validate")

\* a return statement or an except clause of the try block has produced the
\* response r: the finally clause runs before the handler returns it
ExtractLeaveTry(w, r) == Goto(w, "ea_finally", [loc[w] EXCEPT !.ret = Some(r)])

\* lines 98-110: parse the URL, check the file name, name the scratch file
extract_audio_validate(w) ==
    /\ pc[w] = "ea_validate"
    /\ \E parsed_url \in {UrlParse(req[w].url)} :
       \E file_name \in {Basename(parsed_url.path)} :
       \E v \in {ValidateMp4Name(file_name)} :
          IF ~parsed_url.ok
          THEN ExtractLeaveTry(w, ExtractExcept(Exc("ValueError", "Invalid IPv6 URL")))
          ELSE IF ~v.ok
          THEN /\ pc' = [pc EXCEPT ![w] = "ea_finally"]
               /\ loc' = [loc EXCEPT ![w].parsed_url = parsed_url,
                                     ![w].file_name = file_name,
                                     ![w].ret = Some(ExtractExcept(v.exc))]
          ELSE /\ pc' = [pc EXCEPT ![w] = "ea_ffmpeg"]
               /\ loc' = [loc EXCEPT ![w].parsed_url = parsed_url,
                                     ![w].file_name = file_name,
                                     ![w].asset_id = v.asset_id,
                                     ![w].temp_audio_file =
                                         Some(TempAudioFile(v.asset_id[1]))]
    /\ UNCHANGED <<active, req, calls, resp, raised, fs>>

\* lines 112-122: run the transcoding tool
extract_audio_ffmpeg(w) ==
    /\ pc[w] = "ea_ffmpeg"
    /\ \E o \in FfmpegRun(fs, loc[w].temp_audio_file[1]) :
          /\ fs' = o.files
          /\ Log(w, Call("ffmpeg", <<req[w].url, loc[w].temp_audio_file[1]>>,
                         o.raised))
          /\ IF o.raised = None
             THEN Goto(w, "ea_bucket", loc[w])
             ELSE ExtractLeaveTry(w, ExtractExcept(o.raised[1]))
    /\ UNCHANGED <<active, req, resp, raised>>

\* lines 124-131: take the bucket name from the URL
extract_audio_bucket(w) ==
    /\ pc[w] = "ea_bucket"
    /\ \E b \in {ResolveBucket(loc[w].parsed_url)} :
          IF b.ok
          THEN Goto(w, "ea_head_bucket", [loc[w] EXCEPT !.bucket_name = b.bucket_name])
          ELSE ExtractLeaveTry(w, ExtractExcept(b.exc))
    /\ UNCHANGED <<active, req, calls, resp, raised, fs>>

\* variant: a ClientError of the bucket check is logged and not re-raised
extract_audio_head_bucket_logs_only(w) ==
    /\ pc[w] = "ea_head_bucket"
    /\ \E o \in HeadBucketCall :
          /\ Log(w, Call("head_bucket", <<loc[w].bucket_name[1]>>, o))
          /\ IF o = None \/ o[1].type = "ClientError"
             THEN Goto(w, "ea_upload", loc[w])
             ELSE ExtractLeaveTry(w, ExtractExcept(o[1]))
    /\ UNCHANGED <<active, req, resp, raised, fs>>

\* lines 133-138: the bucket check; a ClientError becomes a ValueError
extract_audio_head_bucket(w) ==
    /\ pc[w] = "ea_head_bucket"
    /\ \E o \in HeadBucketCall :
          /\ Log(w, Call("head_bucket", <<loc[w].bucket_name[1]>>, o))
          /\ IF o = None
             THEN Goto(w, "ea_upload", loc[w])
             ELSE IF o[1].type = "ClientError"
             THEN ExtractLeaveTry(w, ExtractExcept(Exc("ValueError",
                     "Invalid or inaccessible bucket: " \o loc[w].bucket_name[1])))
             ELSE ExtractLeaveTry(w, ExtractExcept(o[1]))
    /\ UNCHANGED <<active, req, resp, raised, fs>>

\* lines 140-150: upload the scratch file and return the key
extract_audio_upload(w) ==
    /\ pc[w] = "ea_upload"
    /\ \E audio_key \in {AudioKey(loc[w].asset_id[1])} :
          \E o \in UploadFileCall(fs, loc[w].temp_audio_file[1]) :
             /\ Log(w, Call("upload_file",
                            <<loc[w].temp_audio_file[1], loc[w].bucket_name[1],
                              audio_key, UploadContentType>>, o))
             /\ IF o = None
                THEN Goto(w, "ea_finally",
                          [loc[w] EXCEPT !.audio_key = Some(audio_key),
                              !.ret = Some(ExtractAudioResponse(TRUE, Some(audio_key), None))])
                ELSE ExtractLeaveTry(w, ExtractExcept(o[1]))
    /\ UNCHANGED <<active, req, resp, raised, fs>>

\* variant: the scratch file is looked for on the successful path only
extract_audio_finally_on_success(w) ==
    /\ pc[w] = "ea_finally"
    /\ \E pe \in {PathExists(fs, loc[w].temp_audio_file)} :
          IF pe.raised # None
          THEN Escape(w, pe.raised[1]) /\ loc' = loc
          ELSE IF pe.exists /\ loc[w].ret[1].success
          THEN Goto(w, "ea_remove", loc[w]) /\ UNCHANGED <<resp, raised>>
          ELSE Return(w, loc[w].ret[1]) /\ loc' = loc
    /\ UNCHANGED <<active, req, calls, fs>>

\* lines 168-169: the finally clause looks for the scratch file
extract_audio_finally(w) ==
    /\ pc[w] = "ea_finally"
    /\ \E pe \in {PathExists(fs, loc[w].temp_audio_file)} :
          IF pe.raised # None
          THEN Escape(w, pe.raised[1]) /\ loc' = loc
          ELSE IF pe.exists
          THEN Goto(w, "ea_remove", loc[w]) /\ UNCHANGED <<resp, raised>>
          ELSE Return(w, loc[w].ret[1]) /\ loc' = loc
    /\ UNCHANGED <<active, req, calls, fs>>

\* lines 170-174: remove the scratch file; a failure is only logged
extract_audio_remove(w) ==
    /\ pc[w] = "ea_remove"
    /\ \E o \in OsRemove(fs, loc[w].temp_audio_file[1]) :
          /\ fs' = o.files
          /\ loc' = [loc EXCEPT ![w].remove_failed = ~o.ok]
    /\ Return(w, loc[w].ret[1])
    /\ UNCHANGED <<active, req, calls>>

extract_audio(w) ==
    \/ extract_audio_validate(w)
    \/ extract_audio_ffmpeg(w)
    \/ extract_audio_bucket(w)
    \/ extract_audio_head_bucket(w)
    \/ extract_audio_upload(w)
    \/ extract_audio_finally(w)
    \/ extract_audio_remove(w)

\* ------------------------------------------------------------------------
\* transcribe_audio
\* ------------------------------------------------------------------------

\* class TranscribeAudioRequest; language_code defaults to "en-US" when the
\* request body leaves it out (body_language_code is what the body carried)
TranscribeAudioRequest(audio_key, bucket_name, language_code) ==
    [kind |-> "transcribe", audio_key |-> audio_key, bucket_name |-> bucket_name,
     language_code |-> IF language_code = None THEN "en-US" ELSE language_code[1],
     body_language_code |-> language_code]

\* class TranscribeAudioResponse
TranscribeAudioResponse(success, transcription_job_name, error) ==
    [success |-> success, transcription_job_name |-> transcription_job_name,
     error |-> error]

\* variant: the asset id is folded to lower case
ValidateMp3NameLower(file_name) ==
    IF MatchGuidExt(file_name, ".mp3") = None
    THEN [ok |-> FALSE, asset_id |-> None,
          exc |-> Exc("ValueError",
                      "Audio file name must be a GUID followed by .mp3, got: "
                          \o file_name)]
    ELSE [ok |-> TRUE, asset_id |-> Some(Lower(MatchGuidExt(file_name, ".mp3")[1])),
          exc |-> Exc("", "")]

\* lines 183-186: the file name check; the asset id or the ValueError
ValidateMp3Name(file_name) ==
    IF MatchGuidExt(file_name, ".mp3") = None
    THEN [ok |-> FALSE, asset_id |-> None,
          exc |-> Exc("ValueError",
                      "Audio file name must be a GUID followed by .mp3, got: "
                          \o file_name)]
    ELSE [ok |-> TRUE, asset_id |-> MatchGuidExt(file_name, ".mp3"),
          exc |-> Exc("", "")]

\* line 187
TranscriptionJobName(asset_id) == "transcription_" \o asset_id

\* line 200
MediaFileUri(bucket_name, audio_key) == "s3://" \o bucket_name \o "/" \o audio_key

\* line 201
MediaFormat == "mp3"

\* variant: the output is written next to the audio
SubtitleKeyBesideAudio(asset_id) == "VOD/FinishedVideos/" \o asset_id \o ".json"

\* line 204
SubtitleKey(asset_id) == "VOD/Subtitles/" \o asset_id \o ".json"

\* line 194: the response of the inner except clause
InaccessibleAudio(audio_key) ==
    TranscribeAudioResponse(FALSE, None,
        Some("Invalid or inaccessible audio file: " \o audio_key))

\* lines 212-222: the except clauses, tried in order
TranscribeExcept(e) ==
    IF e.type \in AwsErrors
    THEN TranscribeAudioResponse(FALSE, None, Some("AWS Transcribe error: " \o e.msg))
    ELSE IF e.type = "ValueError"
    THEN TranscribeAudioResponse(FALSE, None, Some("Validation error: " \o e.msg))
    ELSE TranscribeAudioResponse(FALSE, None, Some("Unexpected error: " \o e.msg))

\* s3_client.head_object: success, or one of the faults botocore raises
HeadObjectCall ==
    {None,
     Some(Exc("ClientError",
          "An error occurred (404) when calling the HeadObject operation: Not Found")),
     Some(Exc("ClientError",
          "An error occurred (403) when calling the HeadObject operation: Forbidden")),
     Some(Exc("NoCredentialsError", "Unable to locate credentials")),
     Some(Exc("EndpointConnectionError", "Could not connect to the endpoint URL")),
     Some(Exc("ParamValidationError", "Parameter validation failed"))}

\* transcribe_client.start_transcription_job: accepted, or a fault (a job
\* of the same name exists, a bad language code, no credentials, ...)
StartJobCall ==
    {None,
     Some(Exc("ClientError",
          "An error occurred (ConflictException) when calling the StartTranscriptionJob operation")),
     Some(Exc("ClientError",
          "An error occurred (BadRequestException) when calling the StartTranscriptionJob operation")),
     Some(Exc("NoCredentialsError", "Unable to locate credentials")),
     Some(Exc("EndpointConnectionError", "Could not connect to the endpoint URL")),
     Some(Exc("ParamValidationError", "Parameter validation failed"))}

AudioKeys ==
    {"VOD/FinishedVideos/" \o n : n \in BaseNames(".mp3", ".MP3")}
    \cup {G2 \o ".mp3", "VOD/FinishedVideos/" \o G1 \o ".mp3\n",
          "VOD/FinishedVideos/" \o G1 \o ".mp4"}

BucketNames == {"bkt", "my.bkt"}

LanguageCodes == {None, Some("hi-IN")}

\* POST /transcribe-audio
post_transcribe_audio(w) ==
    \E k \in AudioKeys, b \in BucketNames, l \in LanguageCodes :
        Dispatch(w, TranscribeAudioRequest(k, b, l), "ta_validate")

\* lines 180-187: check the file name, name the job
transcribe_audio_validate(w) ==
    /\ pc[w] = "ta_validate"
    /\ \E file_name \in {Basename(req[w].audio_key)} :
       \E v \in {ValidateMp3Name(file_name)} :
          IF ~v.ok
          THEN /\ Return(w, TranscribeExcept(v.exc))
               /\ loc' = [loc EXCEPT ![w].file_name = file_name]
          ELSE /\ pc' = [pc EXCEPT ![w] = "ta_head_object"]
               /\ loc' = [loc EXCEPT ![w].file_name = file_name,
                                     ![w].asset_id = v.asset_id,
                                     ![w].transcription_job_name =
                                         Some(TranscriptionJobName(v.asset_id[1]))]
               /\ UNCHANGED <<resp, raised>>
    /\ UNCHANGED <<active, req, calls, fs>>

\* variant: a ClientError of the object check is logged and not returned
transcribe_audio_head_object_logs_only(w) ==
    /\ pc[w] = "ta_head_object"
    /\ \E o \in HeadObjectCall :
          /\ Log(w, Call("head_object", <<req[w].bucket_name, req[w].audio_key>>, o))
          /\ IF o = None \/ o[1].type = "ClientError"
             THEN /\ pc' = [pc EXCEPT ![w] = "ta_start_job"]
                  /\ UNCHANGED <<resp, raised>>
             ELSE Return(w, TranscribeExcept(o[1]))
    /\ UNCHANGED <<active, req, loc, fs>>

\* lines 189-194: the object check; a ClientError ends the request
transcribe_audio_head_object(w) ==
    /\ pc[w] = "ta_head_object"
    /\ \E o \in HeadObjectCall :
          /\ Log(w, Call("head_object", <<req[w].bucket_name, req[w].audio_key>>, o))
          /\ IF o = None
             THEN /\ pc' = [pc EXCEPT ![w] = "ta_start_job"]
                  /\ UNCHANGED <<resp, raised>>
             ELSE IF o[1].type = "ClientError"
             THEN Return(w, InaccessibleAudio(req[w].audio_key))
             ELSE Return(w, TranscribeExcept(o[1]))
    /\ UNCHANGED <<active, req, loc, fs>>

\* lines 196-210: submit the job and return its name
transcribe_audio_start_job(w) ==
    /\ pc[w] = "ta_start_job"
    /\ \E o \in StartJobCall :
          /\ Log(w, Call("start_transcription_job",
                         <<loc[w].transcription_job_name[1],
                           MediaFileUri(req[w].bucket_name, req[w].audio_key),
                           MediaFormat, req[w].language_code, req[w].bucket_name,
                           SubtitleKey(loc[w].asset_id[1])>>, o))
          /\ IF o = None
             THEN Return(w, TranscribeAudioResponse(TRUE,
                                loc[w].transcription_job_name, None))
             ELSE Return(w, TranscribeExcept(o[1]))
    /\ UNCHANGED <<active, req, loc, fs>>

transcribe_audio(w) ==
    \/ transcribe_audio_validate(w)
    \/ transcribe_audio_head_object(w)
    \/ transcribe_audio_start_job(w)

\* ------------------------------------------------------------------------
\* probe_audio
\* ------------------------------------------------------------------------

\* class ProbeRequest
ProbeRequest(url) == [kind |-> "probe", url |-> url]

\* class ProbeResponse; the optional fields default to None
ProbeResponse(success, has_audio, duration, error) ==
    [success |-> success, has_audio |-> has_audio, duration |-> duration,
     error |-> error]

AllDigits(s) == \A i \in 1..Len(s) : Ch(s, i) \in Digits

DigitVal(c) == CHOOSE k \in 0..9 : Ch("0123456789", k + 1) = c

RECURSIVE DecVal(_)
DecVal(s) ==
    IF s = "" THEN 0
    ELSE DecVal(Upto(s, Len(s) - 1)) * 10 + DigitVal(Ch(s, Len(s)))

\* float(s) for a plain decimal s ('12', '12.5', '12.500000'), the value
\* counted in millionths; None is the ValueError for any other text.  The
\* tool prints durations with six decimals; signs, exponents, inf and nan
\* are outside the inputs considered.
FloatAt(s, dot) ==
    IF dot = 0
    THEN IF s # "" /\ AllDigits(s) THEN Some(DecVal(s) * 1000000) ELSE None
    ELSE IF /\ Len(s) > 1
            /\ AllDigits(Upto(s, dot - 1))
            /\ AllDigits(From(s, dot + 1))
    THEN Some(DecVal(Upto(s, dot - 1)) * 1000000
              + DecVal(Upto(From(s, dot + 1) \o "000000", 6)))
    ELSE None

Float(s) == FloatAt(s, Find(s, "."))

\* the fault float() raises on text that is no number
FloatError(s) ==
    Exc("ValueError", "could not convert string to float: '" \o s \o "'")

\* line 73: any(stream.get("codec_type") == "audio" for stream in streams)
HasAudio(streams) ==
    \E i \in 1..Len(streams) : streams[i].codec_type = Some("audio")

\* lines 79-82: the duration text of the first stream that has one
FirstStreamDuration(streams) ==
    IF \E i \in 1..Len(streams) : streams[i].duration # None
    THEN streams[MinOr({i \in 1..Len(streams) : streams[i].duration # None}, 0)].duration
    ELSE None

\* variant: the first stream's duration is preferred to the container's
DurationTextStreamsFirst(output) ==
    IF output.streams # None /\ FirstStreamDuration(output.streams[1]) # None
    THEN FirstStreamDuration(output.streams[1])
    ELSE IF output.format # None
    THEN output.format[1].duration
    ELSE None

\* lines 74-82: the duration text the handler converts, None when it
\* converts nothing
DurationText(output) ==
    IF output.format # None /\ output.format[1].duration # None
    THEN output.format[1].duration
    ELSE IF output.streams # None
    THEN FirstStreamDuration(output.streams[1])
    ELSE None

\* lines 73-84 on the parsed output: the response, or the fault
ProbeParsed(output, text) ==
    IF text # None /\ Float(text[1]) = None
    THEN [raised |-> Some(FloatError(text[1])), resp |-> ProbeResponse(FALSE, None, None, None)]
    ELSE [raised |-> None,
          resp |-> ProbeResponse(TRUE,
                     Some(output.streams # None /\ HasAudio(output.streams[1])),
                     IF text = None THEN None ELSE Float(text[1]), None)]

\* variant: without the clause for the tool's non-zero exit
ProbeExceptNoToolClause(e) ==
    ProbeResponse(FALSE, None, None, Some(e.msg))

\* lines 86-92: the except clauses, tried in order
ProbeExcept(e) ==
    IF e.type = "CalledProcessError"
    THEN ProbeResponse(FALSE, None, None, Some("ffprobe failed - " \o e.msg))
    ELSE ProbeResponse(FALSE, None, None, Some(e.msg))

\* what json.loads makes of the tool's output: the 'format' entry (None when
\* the key is missing) with its 'duration' entry, and the 'streams' list
ProbeDoc(format, streams) == [format |-> format, streams |-> streams]
Format(duration) == [duration |-> duration]
Stream(codec_type, duration) == [codec_type |-> codec_type, duration |-> duration]

ProbeFormats ==
    {None, Some(Format(None)), Some(Format(Some("12.500000"))),
     Some(Format(Some("N/A")))}

ProbeStreams ==
    {None, Some(<<>>),
     Some(<<Stream(Some("video"), None)>>),
     Some(<<Stream(Some("video"), None), Stream(Some("audio"), Some("7.250000"))>>),
     Some(<<Stream(Some("audio"), Some("N/A")), Stream(Some("video"), Some("3"))>>),
     Some(<<Stream(None, Some("0.000000"))>>)}

\* subprocess.run(["ffprobe", ...], check=True) and json.loads of its output:
\* a parsed document, text that is no JSON, a non-zero exit, or no tool
FfprobeRun ==
    {[raised |-> None, output |-> Some(ProbeDoc(f, st))] :
        f \in ProbeFormats, st \in ProbeStreams}
    \cup {[raised |-> Some(Exc("JSONDecodeError",
                               "Expecting value: line 1 column 1 (char 0)")),
           output |-> None]}
    \cup {[raised |-> Some(Exc("CalledProcessError", se)), output |-> None] :
             se \in Stderrs}
    \cup {[raised |-> Some(Exc("FileNotFoundError",
                               "[Errno 2] No such file or directory: 'ffprobe'")),
           output |-> None]}

ProbeUrls == {"https://bkt.s3.amazonaws.com/videos/" \o G1 \o ".mp4", ""}

\* POST /probe-audio
post_probe_audio(w) ==
    \E url \in ProbeUrls : Dispatch(w, ProbeRequest(url), "pa_ffprobe")

\* lines 61-71: run the inspection tool and parse what it printed
probe_audio_ffprobe(w) ==
    /\ pc[w] = "pa_ffprobe"
    /\ \E o \in FfprobeRun :
          /\ Log(w, Call("ffprobe", <<req[w].url>>,
                         IF o.raised # None /\ o.raised[1].type = "JSONDecodeError"
                         THEN None ELSE o.raised))
          /\ IF o.raised = None
             THEN /\ Goto(w, "pa_parse", [loc[w] EXCEPT !.output = o.output])
                  /\ UNCHANGED <<resp, raised>>
             ELSE Return(w, ProbeExcept(o.raised[1])) /\ loc' = loc
    /\ UNCHANGED <<active, req, fs>>

\* lines 73-84: derive has_audio and duration
probe_audio_parse(w) ==
    /\ pc[w] = "pa_parse"
    /\ \E r \in {ProbeParsed(loc[w].output[1], DurationText(loc[w].output[1]))} :
          IF r.raised = None
          THEN Return(w, r.resp)
          ELSE Return(w, ProbeExcept(r.raised[1]))
    /\ UNCHANGED <<active, req, loc, calls, fs>>

probe_audio(w) ==
    \/ probe_audio_ffprobe(w)
    \/ probe_audio_parse(w)


Next ==
    \E w \in Workers :
        \/ post_extract_audio(w)
        \/ extract_audio(w)
        \/ post_transcribe_audio(w)
        \/ transcribe_audio(w)
        \/ post_probe_audio(w)
        \/ probe_audio(w)

Spec == Init /\ [][Next]_vars

\* ------------------------------------------------------------------------
\* The two pipelines in sequence: a client has the audio of a video
\* extracted and then has the key it got back transcribed
\* ------------------------------------------------------------------------

\* GUID texts: G1 with one character replaced by an upper-case hex digit, a
\* decimal digit or a letter that is no hex digit (a replaced hyphen, or a
\* 'g', leaves no GUID), and the mixed-case G2
GuidTexts ==
    {Upto(G1, p - 1) \o c \o From(G1, p + 1) : p \in 1..GuidLen, c \in {"A", "0", "g"}}
    \cup {G2}

\* POST /extract-audio, the first request of the client
post_extract_audio_first(w) ==
    /\ pc[w] = "idle"
    /\ \E g \in GuidTexts :
          Dispatch(w, ExtractAudioRequest("https://bkt.s3.amazonaws.com/videos/"
                                          \o g \o ".mp4"), "ea_validate")

\* POST /transcribe-audio with the output_key of the successful extraction
\* and the bucket it was uploaded to
post_transcribe_audio_of_output(w) ==
    /\ pc[w] = "done"
    /\ req[w].kind = "extract"
    /\ resp[w] # None
    /\ resp[w][1].success
    /\ \E l \in LanguageCodes :
          Dispatch(w, TranscribeAudioRequest(resp[w][1].output_key[1],
                                             loc[w].bucket_name[1], l),
                   "ta_validate")

NextRoundTrip ==
    \E w \in Workers :
        \/ post_extract_audio_first(w)
        \/ extract_audio(w)
        \/ post_transcribe_audio_of_output(w)
        \/ transcribe_audio(w)

SpecRoundTrip == Init /\ [][NextRoundTrip]_vars

\* ------------------------------------------------------------------------
\* Two server processes on one host: they share /tmp
\* ------------------------------------------------------------------------

\* two videos of the same GUID, in different folders, and one of another
SharedUrls ==
    {"https://bkt.s3.amazonaws.com/videos/" \o G1 \o ".mp4",
     "https://bkt.s3.amazonaws.com/raw/" \o G1 \o ".mp4",
     "https://bkt.s3.amazonaws.com/videos/" \o G2 \o ".mp4"}

\* POST /extract-audio to either process
post_extract_audio_shared(w) ==
    \E url \in SharedUrls : Dispatch(w, ExtractAudioRequest(url), "ea_validate")

NextWorkers ==
    \E w \in Workers :
        \/ post_extract_audio_shared(w)
        \/ extract_audio(w)

SpecWorkers == InitWith(Workers) /\ [][NextWorkers]_vars

\* ========================================================================
\* Properties
\* ========================================================================

Mp4Ext == ".mp4"
Mp3Ext == ".mp3"
S3HostSuffix == ".s3.amazonaws.com"

\* the basename of the URL path ends in '.mp4' and is a canonical GUID
\* before it
HasGuidMp4Name(url) ==
    \E fn \in {Basename(UrlParse(url).path)} :
        /\ EndsWith(fn, Mp4Ext)
        /\ IsGuid(Upto(fn, Len(fn) - Len(Mp4Ext)))

\* process w handles an extract-audio request whose URL parses and whose
\* basename fails the '.mp4' / GUID validation
ExtractNameInvalid(w) ==
    /\ req[w].kind = "extract"
    /\ UrlParse(req[w].url).ok
    /\ ~HasGuidMp4Name(req[w].url)

Finished(w) == pc[w] = "done"

\* the calls of process w's current request to the collaborator op
CallsOf(w, op) == {i \in 1..Len(calls[w]) : calls[w][i].op = op}

\* the response is a failure whose error text starts with the given prefix
FailsWith(r, prefix) ==
    /\ r # None
    /\ ~r[1].success
    /\ r[1].error # None
    /\ StartsWith(r[1].error[1], prefix)

\* C1: an extract-audio request whose basename does not end in '.mp4' or is
\* no GUID before '.mp4' ends with the handler returning a response with
\* success = false and the validation message; no fault is raised instead.
C1_ValidationFailureIsReturned ==
    \A w \in Workers :
        (Finished(w) /\ ExtractNameInvalid(w)) =>
            /\ raised[w] = None
            /\ FailsWith(resp[w], "Validation error: ")
            /\ Contains(resp[w][1].error[1], loc[w].file_name)

\* C2: every execution of each of the three handlers ends by returning a
\* response object; a failure carries a non-empty error string; no
\* exception leaves the handler.
C2_HandlersAlwaysReturnAResponse ==
    \A w \in Workers :
        Finished(w) =>
            /\ raised[w] = None
            /\ resp[w] # None
            /\ (~resp[w][1].success =>
                   resp[w][1].error # None /\ resp[w][1].error[1] # "")

\* C3: when an extract-audio request that named its scratch file returns,
\* and the removal (if one was attempted) did not fail, the scratch file
\* does not exist, whichever way the request ended.
C3_ScratchFileRemoved ==
    \A w \in Workers :
        (/\ Finished(w)
         /\ req[w].kind = "extract"
         /\ loc[w].temp_audio_file # None
         /\ ~loc[w].remove_failed)
        => loc[w].temp_audio_file[1] \notin fs

\* C3 witness: the tool wrote the scratch file, the upload then failed, and
\* the handler has returned with the file removed.
C3_Witness ==
    \E w \in Workers :
        /\ Finished(w)
        /\ req[w].kind = "extract"
        /\ Len(calls[w]) = 3
        /\ calls[w][1].op = "ffmpeg" /\ calls[w][1].raised = None
        /\ calls[w][3].op = "upload_file" /\ calls[w][3].raised # None
        /\ ~loc[w].remove_failed
        /\ resp[w] # None /\ ~resp[w][1].success
        /\ loc[w].temp_audio_file[1] \notin fs

\* the bucket B of a URL https://B.s3.amazonaws.com/... or s3://B/...
NamedBucket(parsed_url) ==
    IF EndsWith(parsed_url.netloc, S3HostSuffix)
    THEN Upto(parsed_url.netloc, Len(parsed_url.netloc) - Len(S3HostSuffix))
    ELSE parsed_url.netloc

\* the URL has one of the two supported shapes
IsS3Shape(parsed_url) ==
    \/ EndsWith(parsed_url.netloc, S3HostSuffix)
    \/ parsed_url.scheme = "s3" /\ parsed_url.netloc # ""

\* C4: for a URL https://B.s3.amazonaws.com/<path>/<guid>.mp4 or
\* s3://B/<path>/<guid>.mp4 the bucket handed to the bucket check and to
\* the upload is B; any other shape gives a validation failure.
C4_BucketIsTheOneTheUrlNames ==
    \A w \in Workers :
        req[w].kind = "extract" =>
            /\ \A i \in CallsOf(w, "head_bucket") :
                  /\ IsS3Shape(loc[w].parsed_url)
                  /\ calls[w][i].args[1] = NamedBucket(loc[w].parsed_url)
            /\ \A i \in CallsOf(w, "upload_file") :
                  /\ IsS3Shape(loc[w].parsed_url)
                  /\ calls[w][i].args[2] = NamedBucket(loc[w].parsed_url)

\* C5: in an extract-audio request whose basename fails the validation no
\* collaborator is ever called: no tool run, no bucket check, no upload.
C5_NoCallsOnInvalidName ==
    \A w \in Workers : ExtractNameInvalid(w) => calls[w] = <<>>

\* C5 witness: such a request has ended.
C5_Witness ==
    \E w \in Workers :
        /\ ExtractNameInvalid(w)
        /\ Finished(w)
        /\ EndsWith(loc[w].file_name, Mp4Ext)
        /\ calls[w] = <<>>

\* the handler of process w is in, or past, its finally clause
InCleanup(w) == pc[w] \in {"ea_finally", "ea_remove", "done"}

\* the response the handler of process w is about to return or has returned
Outcome(w) == IF resp[w] # None THEN resp[w] ELSE loc[w].ret

\* C6: when the transcoding tool exits non-zero the response is a failure
\* whose message is the extraction-failure text with the tool's
\* diagnostics, no bucket check and no upload is issued, and control is in
\* the scratch-file cleanup.
C6_ToolFailure ==
    \A w \in Workers :
        (/\ req[w].kind = "extract"
         /\ calls[w] # <<>>
         /\ calls[w][1].raised # None
         /\ calls[w][1].raised[1].type = "CalledProcessError")
        => /\ Len(calls[w]) = 1
           /\ InCleanup(w)
           /\ raised[w] = None
           /\ Outcome(w) # None
           /\ ~Outcome(w)[1].success
           /\ Outcome(w)[1].error =
                 Some("Audio extraction failed: " \o calls[w][1].raised[1].msg)
           /\ Finished(w) => resp[w] = loc[w].ret

\* C6 witness: the tool failed with diagnostics and the handler returned.
C6_Witness ==
    \E w \in Workers :
        /\ Finished(w)
        /\ req[w].kind = "extract"
        /\ Len(calls[w]) = 1
        /\ calls[w][1].raised # None
        /\ calls[w][1].raised[1].type = "CalledProcessError"
        /\ calls[w][1].raised[1].msg # ""
        /\ resp[w] # None
        /\ Contains(resp[w][1].error[1], calls[w][1].raised[1].msg)

\* C7: a failed bucket check, whatever the fault, gives a failure response
\* with an error, is the last call of the request, and the cleanup still
\* runs; an upload is only issued right after a successful check of the
\* same bucket in the same request.
C7_UploadOnlyAfterBucketCheck ==
    \A w \in Workers :
        req[w].kind = "extract" =>
            /\ \A i \in CallsOf(w, "upload_file") :
                  /\ i > 1
                  /\ calls[w][i - 1].op = "head_bucket"
                  /\ calls[w][i - 1].raised = None
                  /\ calls[w][i - 1].args[1] = calls[w][i].args[2]
            /\ \A i \in CallsOf(w, "head_bucket") :
                  calls[w][i].raised # None =>
                      /\ i = Len(calls[w])
                      /\ InCleanup(w)
                      /\ raised[w] = None
                      /\ FailsWith(Outcome(w), "")
                      /\ Outcome(w)[1].error[1] # ""
                      /\ Finished(w) =>
                            \/ loc[w].temp_audio_file[1] \notin fs
                            \/ loc[w].remove_failed

\* C7 witness: the bucket check failed with a connectivity fault and the
\* request has ended without an upload.
C7_Witness ==
    \E w \in Workers :
        /\ Finished(w)
        /\ req[w].kind = "extract"
        /\ Len(calls[w]) = 2
        /\ calls[w][2].op = "head_bucket"
        /\ calls[w][2].raised # None
        /\ calls[w][2].raised[1].type = "EndpointConnectionError"
        /\ resp[w] # None /\ ~resp[w][1].success
        /\ loc[w].temp_audio_file[1] \notin fs

\* the GUID at the front of the basename of the URL path
GuidOfUrl(url) == Upto(Basename(UrlParse(url).path), GuidLen)

\* C8: success = true only after the tool exited zero, the bucket was
\* resolved, the bucket check succeeded and the upload succeeded; then
\* output_key is 'VOD/FinishedVideos/{guid}.mp3' with the GUID as spelled
\* in the input basename, and exactly one upload was issued, to the
\* resolved bucket, under that key, with an audio content type.
C8_SuccessMeansUploaded ==
    \A w \in Workers :
        (/\ req[w].kind = "extract"
         /\ Outcome(w) # None
         /\ Outcome(w)[1].success)
        => \E key \in {"VOD/FinishedVideos/" \o GuidOfUrl(req[w].url) \o ".mp3"} :
              /\ Len(calls[w]) = 3
              /\ calls[w][1].op = "ffmpeg" /\ calls[w][1].raised = None
              /\ loc[w].bucket_name # None
              /\ calls[w][2].op = "head_bucket" /\ calls[w][2].raised = None
              /\ calls[w][2].args[1] = loc[w].bucket_name[1]
              /\ calls[w][3].op = "upload_file" /\ calls[w][3].raised = None
              /\ calls[w][3].args[2] = loc[w].bucket_name[1]
              /\ calls[w][3].args[3] = key
              /\ StartsWith(calls[w][3].args[4], "audio/")
              /\ Cardinality(CallsOf(w, "upload_file")) = 1
              /\ Outcome(w)[1].output_key = Some(key)
              /\ Outcome(w)[1].error = None

\* C8 witness: a request for the mixed-case GUID has returned success.
C8_Witness ==
    \E w \in Workers :
        /\ Finished(w)
        /\ req[w].kind = "extract"
        /\ resp[w] # None /\ resp[w][1].success
        /\ resp[w][1].output_key = Some("VOD/FinishedVideos/" \o G2 \o ".mp3")

\* C9: a transcription job is submitted only right after a successful
\* object check of {bucket_name}/{audio_key} in the same request; when the
\* check fails, for whatever reason, the response is a failure with an
\* error and no job is submitted.
C9_JobOnlyAfterObjectCheck ==
    \A w \in Workers :
        req[w].kind = "transcribe" =>
            /\ \A i \in CallsOf(w, "start_transcription_job") :
                  /\ i = 2
                  /\ calls[w][1].op = "head_object"
                  /\ calls[w][1].raised = None
                  /\ calls[w][1].args = <<req[w].bucket_name, req[w].audio_key>>
            /\ \A i \in CallsOf(w, "head_object") :
                  calls[w][i].raised # None =>
                      /\ Len(calls[w]) = 1
                      /\ Finished(w)
                      /\ raised[w] = None
                      /\ FailsWith(resp[w], "")
                      /\ resp[w][1].error[1] # ""

\* C9 witness: the object is missing and the request has ended.
C9_Witness ==
    \E w \in Workers :
        /\ Finished(w)
        /\ req[w].kind = "transcribe"
        /\ Len(calls[w]) = 1
        /\ calls[w][1].op = "head_object"
        /\ calls[w][1].raised # None
        /\ calls[w][1].raised[1].type = "ClientError"
        /\ resp[w] # None /\ ~resp[w][1].success

\* the GUID at the front of the basename of the audio key
GuidOfKey(audio_key) == Upto(Basename(audio_key), GuidLen)

\* the language code of the request: the caller's, 'en-US' by default
CallerLanguage(r) ==
    IF r.body_language_code = None THEN "en-US" ELSE r.body_language_code[1]

\* the one job a transcribe request with GUID g is to submit
ExpectedJob(r, g) ==
    <<"transcription_" \o g,
      "s3://" \o r.bucket_name \o "/" \o r.audio_key,
      "mp3",
      CallerLanguage(r),
      r.bucket_name,
      "VOD/Subtitles/" \o g \o ".json">>

\* C10: with the object present and the job accepted the response is
\* success with transcription_job_name = 'transcription_' + g, and the one
\* job submitted carries that name, the media URI
\* s3://{bucket_name}/{audio_key}, format mp3, the caller's language code
\* (default 'en-US'), output bucket bucket_name and output key
\* 'VOD/Subtitles/' + g + '.json'; success is never returned without
\* exactly one job submitted.
C10_JobAsSpecified ==
    \A w \in Workers :
        (req[w].kind = "transcribe" /\ Finished(w)) =>
            \E g \in {GuidOfKey(req[w].audio_key)} :
               /\ (resp[w] # None /\ resp[w][1].success) =>
                     /\ Cardinality(CallsOf(w, "start_transcription_job")) = 1
                     /\ Len(calls[w]) = 2
                     /\ calls[w][2].op = "start_transcription_job"
                     /\ calls[w][2].raised = None
                     /\ calls[w][2].args = ExpectedJob(req[w], g)
                     /\ resp[w][1].transcription_job_name = Some("transcription_" \o g)
                     /\ resp[w][1].error = None
               /\ (/\ Len(calls[w]) = 2
                   /\ calls[w][1].raised = None
                   /\ calls[w][2].raised = None)
                  => /\ raised[w] = None
                     /\ resp[w] # None
                     /\ resp[w][1].success

\* C10 witness: a request that left the language code out, for the
\* mixed-case GUID, has returned success.
C10_Witness ==
    \E w \in Workers :
        /\ Finished(w)
        /\ req[w].kind = "transcribe"
        /\ req[w].body_language_code = None
        /\ GuidOfKey(req[w].audio_key) = G2
        /\ resp[w] # None /\ resp[w][1].success
        /\ Len(calls[w]) = 2

\* the basename of the audio key is a canonical GUID followed by '.mp3' and
\* nothing else (the pattern is applied ignoring case)
HasGuidMp3Name(audio_key) ==
    \E fn \in {Basename(audio_key)} :
        /\ Len(fn) = GuidLen + Len(Mp3Ext)
        /\ IsGuid(Upto(fn, GuidLen))
        /\ Lower(From(fn, GuidLen + 1)) = Mp3Ext

\* C11: a transcribe-audio request whose basename is not a canonical GUID
\* followed by '.mp3' makes no collaborator call (no object check, no job
\* submission) and ends with a failure response carrying the validation
\* message.
C11_NoCallsOnInvalidAudioName ==
    \A w \in Workers :
        (req[w].kind = "transcribe" /\ ~HasGuidMp3Name(req[w].audio_key)) =>
            /\ calls[w] = <<>>
            /\ Finished(w) =>
                  /\ raised[w] = None
                  /\ FailsWith(resp[w], "Validation error: ")

\* process w handles a probe request whose tool run exited zero and printed
\* a well-formed document
Probed(w) == req[w].kind = "probe" /\ loc[w].output # None

\* the stream entries of the document, none when it has no 'streams' key
StreamsOf(output) == IF output.streams = None THEN <<>> ELSE output.streams[1]

\* the container-level duration field is present
HasContainerDuration(output) ==
    output.format # None /\ output.format[1].duration # None

\* the positions of the stream entries that carry a duration field
WithDuration(output) ==
    {i \in 1..Len(StreamsOf(output)) : StreamsOf(output)[i].duration # None}

\* every duration field of the document is a parseable number
AllDurationsParse(output) ==
    /\ HasContainerDuration(output) => Float(output.format[1].duration[1]) # None
    /\ \A i \in WithDuration(output) :
          Float(StreamsOf(output)[i].duration[1]) # None

\* the duration of the first stream entry that carries one, None without
FirstCarriedDuration(output) ==
    IF WithDuration(output) = {} THEN None
    ELSE Float(StreamsOf(output)[MinOr(WithDuration(output), 0)].duration[1])

\* C12: a probe whose tool run exited zero with a well-formed document, all
\* of whose duration fields parse, returns success with has_audio true
\* exactly when some stream entry has codec type 'audio', and duration the
\* container-level duration when present, else that of the first stream
\* entry carrying one, else absent; zero streams and no duration field give
\* success, has_audio false and no duration.
C12_ProbeResult ==
    \A w \in Workers :
        (Finished(w) /\ Probed(w) /\ AllDurationsParse(loc[w].output[1])) =>
            \E output \in {loc[w].output[1]} :
               /\ raised[w] = None
               /\ resp[w] # None
               /\ resp[w][1].success
               /\ resp[w][1].error = None
               /\ resp[w][1].has_audio =
                     Some(\E i \in 1..Len(StreamsOf(output)) :
                              StreamsOf(output)[i].codec_type = Some("audio"))
               /\ resp[w][1].duration =
                     IF HasContainerDuration(output)
                     THEN Float(output.format[1].duration[1])
                     ELSE FirstCarriedDuration(output)
               /\ (StreamsOf(output) = <<>> /\ ~HasContainerDuration(output)) =>
                     resp[w][1] = ProbeResponse(TRUE, Some(FALSE), None, None)

\* C12 witness: the document has no container-level duration, a video
\* stream without duration and an audio stream of 7.25 seconds, and the probe
\* has returned them.
C12_Witness ==
    \E w \in Workers :
        /\ Finished(w) /\ Probed(w)
        /\ ~HasContainerDuration(loc[w].output[1])
        /\ Len(StreamsOf(loc[w].output[1])) = 2
        /\ StreamsOf(loc[w].output[1])[1].duration = None
        /\ resp[w] # None
        /\ resp[w][1] = ProbeResponse(TRUE, Some(TRUE), Some(7250000), None)

\* C13: when the container-level duration field is present but is no
\* parseable number, and the first stream entry that carries a duration
\* carries a parseable one, the probe returns success with that stream's
\* duration.
C13_FallbackOnUnparseableContainerDuration ==
    \A w \in Workers :
        (/\ Finished(w) /\ Probed(w)
         /\ HasContainerDuration(loc[w].output[1])
         /\ Float(loc[w].output[1].format[1].duration[1]) = None
         /\ FirstCarriedDuration(loc[w].output[1]) # None)
        => /\ raised[w] = None
           /\ resp[w] # None
           /\ resp[w][1].success
           /\ resp[w][1].duration = FirstCarriedDuration(loc[w].output[1])

\* the inspection tool of process w's probe request exited non-zero
ProbeToolFailed(w) ==
    /\ req[w].kind = "probe"
    /\ calls[w] # <<>>
    /\ calls[w][1].raised # None
    /\ calls[w][1].raised[1].type = "CalledProcessError"

\* C14: a probe whose tool run exited non-zero has returned a failure whose
\* error contains 'ffprobe failed' and the tool's diagnostic text, with
\* has_audio and duration absent; and no probe response that is not a
\* success carries has_audio or duration.
C14_ProbeToolFailure ==
    \A w \in Workers :
        /\ ProbeToolFailed(w) =>
              /\ Finished(w)
              /\ raised[w] = None
              /\ FailsWith(resp[w], "")
              /\ Contains(resp[w][1].error[1], "ffprobe failed")
              /\ Contains(resp[w][1].error[1], calls[w][1].raised[1].msg)
              /\ resp[w][1].has_audio = None
              /\ resp[w][1].duration = None
        /\ (req[w].kind = "probe" /\ resp[w] # None) =>
              ((resp[w][1].has_audio # None \/ resp[w][1].duration # None)
                  => resp[w][1].success)

\* C14 witness: the tool exited non-zero with diagnostics and the probe has
\* returned them.
C14_Witness ==
    \E w \in Workers :
        /\ ProbeToolFailed(w)
        /\ Finished(w)
        /\ calls[w][1].raised[1].msg # ""
        /\ resp[w] # None
        /\ resp[w][1].error =
              Some("ffprobe failed - " \o calls[w][1].raised[1].msg)

\* the faults with which the storage service reports a failed call: the
\* bucket or object is missing or inaccessible, the service cannot be
\* reached, the transfer failed
StorageFaults == AwsErrors \cup {"S3UploadFailedError"}

\* the storage calls of process w's request that failed that way
FailedStorageCalls(w) ==
    {i \in CallsOf(w, "head_bucket") \cup CallsOf(w, "upload_file") :
        calls[w][i].raised # None /\ calls[w][i].raised[1].type \in StorageFaults}

\* C15: in an extract-audio request the error prefix names the fault that
\* occurred: 'Audio extraction failed: ' for a non-zero exit of the tool,
\* 'AWS S3 error: ' for a failed storage call (bucket check or upload),
\* 'Validation error: ' for a file name that fails the validation; a failed
\* bucket check is never reported as 'Validation error: '.
C15_PrefixNamesTheFault ==
    \A w \in Workers :
        (req[w].kind = "extract" /\ InCleanup(w) /\ Outcome(w) # None) =>
            /\ (calls[w] # <<>> /\ calls[w][1].raised # None
                /\ calls[w][1].raised[1].type = "CalledProcessError")
               => FailsWith(Outcome(w), "Audio extraction failed: ")
            /\ FailedStorageCalls(w) # {}
               => FailsWith(Outcome(w), "AWS S3 error: ")
            /\ ExtractNameInvalid(w)
               => FailsWith(Outcome(w), "Validation error: ")
            /\ \A i \in CallsOf(w, "head_bucket") :
                  calls[w][i].raised # None
                  => ~FailsWith(Outcome(w), "Validation error: ")

\* the response process w's extract-audio handler has decided on is a
\* validation failure for the shape of the input: a failure with the
\* validation prefix that no failed bucket check stands behind
ShapeValidationFailure(w) ==
    /\ req[w].kind = "extract"
    /\ FailsWith(Outcome(w), "Validation error: ")
    /\ \A i \in CallsOf(w, "head_bucket") : calls[w][i].raised = None

\* C16: whenever an extract-audio request ends in a validation failure for
\* the shape of its input, a URL with a valid '{guid}.mp4' basename but an
\* unsupported host or scheme included, no collaborator has been called in
\* that request: no tool run, no storage call.
C16_ValidationBeforeAnyCall ==
    \A w \in Workers : ShapeValidationFailure(w) => calls[w] = <<>>

AudioPrefix == "VOD/FinishedVideos/"

\* what stands between the audio prefix and the '.mp3' of an audio key
KeyGuid(audio_key) ==
    SubSeq(audio_key, Len(AudioPrefix) + 1, Len(audio_key) - Len(Mp3Ext))

\* the names the extract-audio handler of process w has derived are those
\* of the GUID g of its input basename '{g}.mp4'
ExtractNamesOf(w) ==
    (req[w].kind = "extract" /\ loc[w].audio_key # None) =>
        \E g \in {Upto(loc[w].file_name, Len(loc[w].file_name) - Len(Mp4Ext))} :
           /\ IsGuid(g)
           /\ loc[w].file_name = g \o Mp4Ext
           /\ loc[w].audio_key = Some(AudioPrefix \o g \o Mp3Ext)
           /\ Outcome(w) # None /\ Outcome(w)[1].success
              => Outcome(w)[1].output_key = Some(AudioPrefix \o g \o Mp3Ext)

\* the names the transcribe-audio handler of process w has derived from its
\* key 'VOD/FinishedVideos/{g}.mp3' are those of g, character for character
TranscribeNamesOf(w) ==
    (req[w].kind = "transcribe" /\ pc[w] # "ta_validate") =>
        \E g \in {KeyGuid(req[w].audio_key)} :
           /\ IsGuid(g)
           /\ req[w].audio_key = AudioPrefix \o g \o Mp3Ext
           /\ loc[w].asset_id = Some(g)
           /\ loc[w].transcription_job_name = Some("transcription_" \o g)
           /\ \A i \in CallsOf(w, "start_transcription_job") :
                 /\ calls[w][i].args[1] = "transcription_" \o g
                 /\ calls[w][i].args[6] = "VOD/Subtitles/" \o g \o ".json"
           /\ (resp[w] # None /\ resp[w][1].success) =>
                 resp[w][1].transcription_job_name = Some("transcription_" \o g)

\* the step hands the output key of an extraction to transcribe-audio: the
\* key is that of the GUID of the extraction's input, as spelled there
KeyHandedOver(w) ==
    (req[w].kind = "extract" /\ req'[w].kind = "transcribe") =>
        req'[w].audio_key = AudioPrefix \o GuidOfUrl(req[w].url) \o Mp3Ext

\* C17: naming round trip.  For every GUID g, of whatever case, the audio
\* key extract-audio derives from the basename '{g}.mp4' is
\* 'VOD/FinishedVideos/{g}.mp3'; handed to transcribe-audio, that key gives
\* back exactly g, the job name 'transcription_{g}' and the subtitle key
\* 'VOD/Subtitles/{g}.json'.
C17_NamingRoundTrip ==
    /\ [](\A w \in Workers : ExtractNamesOf(w) /\ TranscribeNamesOf(w))
    /\ [][\A w \in Workers : KeyHandedOver(w)]_vars

\* C17 witness: the audio of the mixed-case GUID was extracted, the key was
\* handed to transcribe-audio, and the job was submitted under its names.
C17_Witness ==
    \E w \in Workers :
        /\ Finished(w)
        /\ req[w].kind = "transcribe"
        /\ req[w].audio_key = AudioPrefix \o G2 \o Mp3Ext
        /\ resp[w] # None /\ resp[w][1].success
        /\ resp[w][1].transcription_job_name = Some("transcription_" \o G2)
        /\ calls[w][2].args[6] = "VOD/Subtitles/" \o G2 \o ".json"

\* C18: a fault of the cleanup step of extract-audio, raised by the check
\* for the scratch file or by its removal, never changes the result: on
\* every path the handler returns the response it had decided on when the
\* cleanup began.
C18_CleanupKeepsTheResult ==
    \A w \in Workers :
        (Finished(w) /\ req[w].kind = "extract" /\ loc[w].ret # None) =>
            /\ raised[w] = None
            /\ resp[w] = loc[w].ret

\* the extract-audio handler of process w is between its successful
\* transcoding and its upload
AwaitingUpload(w) ==
    /\ req[w].kind = "extract"
    /\ pc[w] \in {"ea_bucket", "ea_head_bucket", "ea_upload"}

\* C19: extract-audio requests that run at the same time and share a GUID
\* do not harm each other: while a request is between its successful
\* transcoding and its upload its scratch file exists (no other request's
\* cleanup has removed it), and no upload ever finds the file missing.
C19_ScratchFileSurvivesUntilUpload ==
    \A w \in Workers :
        /\ AwaitingUpload(w) => loc[w].temp_audio_file[1] \in fs
        /\ \A i \in CallsOf(w, "upload_file") :
              calls[w][i].raised # None
              => calls[w][i].raised[1].type # "FileNotFoundError"

\* a handler of process w has started and not yet returned
Running(w) == pc[w] \notin {"idle", "done"}

\* while the handler of process w runs, a step of that process is a step of
\* this handler: the request stays the one being handled, and the calls
\* recorded for it are kept and at most extended
HandlerKeepsTheProcess(w) ==
    Running(w) =>
        /\ req'[w] = req[w]
        /\ Len(calls'[w]) >= Len(calls[w])
        /\ SubSeq(calls'[w], 1, Len(calls[w])) = calls[w]

\* the only process that is running has the scratch files to itself: what
\* its handler transcoded is there until it uploads
ScratchFileUntouched(w) ==
    (active = {w} /\ AwaitingUpload(w)) => loc[w].temp_audio_file[1] \in fs

====
